---- MODULE Spec2Model ----
(***************************************************************************)
(* Rider-Telemetry, src/src/App.js: the telemetry polling handler, the     *)
(* bounded ride history and the crash countdown of the App component.      *)
(*                                                                         *)
(* Units (fixed point).  Accelerations are integers in tenths of m/s^2,    *)
(* speeds are integers in thousandths of km/h.  A reading's gForce field   *)
(* holds the squared magnitude ax^2 + ay^2 + az^2 in (0.1 m/s^2)^2: the    *)
(* code's value sqrt(s)/9.8 is a strictly increasing function of s, so      *)
(* every comparison the code makes on gForce is made here on s (see        *)
(* ExceedsG).  NaN is the value the code's arithmetic yields when a         *)
(* component is undefined.                                                  *)
(*                                                                         *)
(* A JavaScript object is a function from the keys it has to their values; *)
(* a key the object lacks reads as undefined (Has).  The readings built by *)
(* the handler live in `objects` and are referred to by their index, as    *)
(* the code's telemetry state, history array and geolocation callback all  *)
(* hold the same object reference.                                          *)
(***************************************************************************)
EXTENDS Integers, Sequences, FiniteSets, TLC

VARIABLES
    objects,        \* the newData objects allocated so far (line 57), by reference
    telemetry,      \* useState({}) line 20: 0 for {}, else a reference into objects
    history,        \* useState([]) line 24: sequence of references, oldest first
    crashDetected,  \* useState(false) line 22
    countdown,      \* useState(0) line 23
    countdownRef,   \* useRef(null) line 25: 0 for null, else an interval handle
    timers,         \* the live countdown interval handles (setInterval line 94)
    nextTimer,      \* the next handle setInterval returns
    geoPending,     \* readings with a getCurrentPosition callback outstanding
    view,           \* useState("dashboard") line 21
    calls,          \* callEmergency invocations since the controller last left Idle
    episodeTicks    \* firings of the interval started by the crash signal that
                    \* left Idle; counted by the steps of SpecDeadline only

vars == <<objects, telemetry, history, crashDetected, countdown, countdownRef,
          timers, nextTimer, geoPending, view, calls, episodeTicks>>

(***************************************************************************)
(* Bounds of the model.                                                    *)
(***************************************************************************)
MaxSamples == 3
MaxCalls == 2
MaxTicks == 31
HistoryAppends == 1003

(***************************************************************************)
(* Program constants.                                                      *)
(***************************************************************************)
NaN == -1
Gravity == 98
CrashThreshold == 35
CountdownStart == 30
HistoryKeep == 1000
JitterLimit == 800
WalkingFrom == 1700
ScooterFrom == 5500
MotorcycleFrom == 9600
FallbackLat == 13
FallbackLon == 78

Views == {"dashboard", "map", "history", "contact"}

(***************************************************************************)
(* Sample normalisation: the body of the fetch handler, lines 36-63.       *)
(***************************************************************************)
Has(o, k) == k \in DOMAIN o

\* A JavaScript truthiness test of a numeric field: undefined and 0 are falsy.
Truthy(o, k) == Has(o, k) /\ o[k] # 0

\* x ** 2 for a field of the sample: undefined ** 2 is NaN.
Square(o, k) == IF Has(o, k) THEN o[k] * o[k] ELSE NaN

\* Math.sqrt(ax ** 2 + ay ** 2 + az ** 2) / 9.8, as the squared magnitude;
\* NaN as soon as one term is NaN.
GForce(data) ==
    LET x == Square(data, "ax")
        y == Square(data, "ay")
        z == Square(data, "az")
    IN  IF x = NaN \/ y = NaN \/ z = NaN THEN NaN ELSE x + y + z

\* The comparison taken inclusively: "gForce >= 3.5".
ExceedsG_OrEqual(g, tenths) ==
    /\ g # NaN
    /\ 100 * g >= (tenths * Gravity) * (tenths * Gravity)

\* g > tenths/10 for a gForce g (NaN compares false with everything):
\* sqrt(s)/9.8 > t/10  <=>  100 s > (t * 98)^2.
ExceedsG(g, tenths) ==
    /\ g # NaN
    /\ 100 * g > (tenths * Gravity) * (tenths * Gravity)

\* The two sources tried in the other order.
RawSpeed_MpuFirst(data) ==
    IF Truthy(data, "mpu_spd") /\ data["mpu_spd"] > 0 THEN data["mpu_spd"]
    ELSE IF Truthy(data, "gps_spd") /\ data["gps_spd"] > 0 THEN data["gps_spd"]
    ELSE 0

\* "if (data.gps_spd && data.gps_spd > 0) ... else if (data.mpu_spd && ...)".
RawSpeed(data) ==
    IF Truthy(data, "gps_spd") /\ data["gps_spd"] > 0 THEN data["gps_spd"]
    ELSE IF Truthy(data, "mpu_spd") /\ data["mpu_spd"] > 0 THEN data["mpu_spd"]
    ELSE 0

\* parseFloat(x.toFixed(2)) of a non-negative x in thousandths: the nearest
\* hundredth.  A value halfway between two hundredths goes to the side on
\* which the double nearest to it lies; for the halves used here (1.695) that
\* is up.
ToFixed2(x) == ((x + 5) \div 10) * 10

\* The jitter filter applied to the rounded value instead of the raw one.
Speed_RoundFirst(rawSpeed) ==
    IF ToFixed2(rawSpeed) < JitterLimit THEN 0 ELSE ToFixed2(rawSpeed)

\* "rawSpeed < 0.8 ? 0 : parseFloat(rawSpeed.toFixed(2))".
Speed(rawSpeed) == IF rawSpeed < JitterLimit THEN 0 ELSE ToFixed2(rawSpeed)

\* The thresholds taken inclusively: "speed <= 1.7", "speed <= 5.5", ...
RideMode_Inclusive(speed) ==
    IF speed <= WalkingFrom THEN "Idle"
    ELSE IF speed <= ScooterFrom THEN "Walking"
    ELSE IF speed <= MotorcycleFrom THEN "Scooter"
    ELSE "Motorcycle"

RideMode(speed) ==
    IF speed < WalkingFrom THEN "Idle"
    ELSE IF speed < ScooterFrom THEN "Walking"
    ELSE IF speed < MotorcycleFrom THEN "Scooter"
    ELSE "Motorcycle"

\* The guard without its second test: "if (!data) return;".
SkipGuard_DataOnly(data) == FALSE

\* "if (!data || data.ax === undefined) return;" for an object data.
SkipGuard(data) == ~Has(data, "ax")

\* { ...data, gForce, spd: speed, ride_mode: rideMode, timestamp: Date.now() }
\* where the clock reading is the reading's place in processing order.
NewData(data, ts) ==
    [k \in DOMAIN data \cup {"gForce", "spd", "ride_mode", "timestamp"} |->
        CASE k = "gForce" -> GForce(data)
          [] k = "spd" -> Speed(RawSpeed(data))
          [] k = "ride_mode" -> RideMode(Speed(RawSpeed(data)))
          [] k = "timestamp" -> ts
          [] OTHER -> data[k]]

\* The test with && for ||: asked for only when both are missing.
PositionMissing_Both(data) == ~Truthy(data, "lat") /\ ~Truthy(data, "lon")

\* "if (!data.lat || !data.lon)": the fallback position is asked for.
PositionMissing(data) == ~Truthy(data, "lat") \/ ~Truthy(data, "lon")

\* slice(0, 1000) for slice(-1000): the first n kept instead of the last.
SliceLast_KeepsFirst(s, n) == IF Len(s) <= n THEN s ELSE SubSeq(s, 1, n)

\* "[...prev.slice(-1000), newData]".
SliceLast(s, n) == IF Len(s) <= n THEN s ELSE SubSeq(s, Len(s) - n + 1, Len(s))

AppendHistory(prev, ref) == Append(SliceLast(prev, HistoryKeep), ref)

(***************************************************************************)
(* The countdown controller, lines 88-114.                                 *)
(***************************************************************************)
Idle == ~crashDetected /\ countdown = 0
Active == crashDetected /\ countdown > 0

\* The crashDetected that triggerCrashSequence reads when the polling handler
\* calls it: the effect is registered once (deps [], line 86), so the handler
\* keeps the first render's triggerCrashSequence, whose crashDetected is the
\* initial state, false (line 22).
ClosureCrashDetected == FALSE

\* callEmergency, lines 112-114: window.location.href = "tel:...", and
\* nothing else.
callEmergency == calls' = calls + 1

\* triggerCrashSequence with the interval's handle dropped instead of kept in
\* countdownRef.current.
triggerCrashSequence_HandleDropped ==
    /\ crashDetected' = TRUE
    /\ countdown' = CountdownStart
    /\ countdownRef' = countdownRef
    /\ timers' = timers \cup {nextTimer}
    /\ nextTimer' = nextTimer + 1
    /\ calls' = IF Idle THEN 0 ELSE calls

\* triggerCrashSequence, lines 89-104, as called from the polling handler.
triggerCrashSequence ==
    IF ClosureCrashDetected
    THEN UNCHANGED <<crashDetected, countdown, countdownRef, timers, nextTimer, calls>>
    ELSE /\ crashDetected' = TRUE
         /\ countdown' = CountdownStart
         /\ countdownRef' = nextTimer
         /\ timers' = timers \cup {nextTimer}
         /\ nextTimer' = nextTimer + 1
         /\ calls' = IF Idle THEN 0 ELSE calls

\* clearInterval(countdownRef.current): a null or dead handle clears nothing.
ClearCountdownInterval == timers \ {countdownRef}

\* The updater returning prev - 2: one firing counted twice.
CountdownTick_SkipsOne(t) ==
    /\ t \in timers
    /\ IF countdown <= 1
       THEN /\ calls < MaxCalls
            /\ timers' = timers \ {countdownRef}
            /\ calls' = calls + 1
            /\ countdown' = 0
       ELSE /\ countdown' = countdown - 2
            /\ UNCHANGED <<timers, calls>>
    /\ UNCHANGED <<objects, telemetry, history, crashDetected, countdownRef,
                   nextTimer, geoPending, view>>

\* One firing of a countdown interval, lines 94-103: the setCountdown updater,
\* run once, in the firing, on the current countdown.  It clears the interval
\* countdownRef holds, which need not be the one that fired, and leaves
\* crashDetected alone.
CountdownTick(t) ==
    /\ t \in timers
    /\ IF countdown <= 1
       THEN /\ calls < MaxCalls
            /\ timers' = ClearCountdownInterval
            /\ callEmergency
            /\ countdown' = 0
       ELSE /\ countdown' = countdown - 1
            /\ UNCHANGED <<timers, calls>>
    /\ UNCHANGED <<objects, telemetry, history, crashDetected, countdownRef,
                   nextTimer, geoPending, view>>

\* cancelEmergency, lines 106-110, from the alert's Cancel button, which is
\* rendered while crashDetected (line 280).
cancelEmergency ==
    /\ crashDetected
    /\ timers' = ClearCountdownInterval
    /\ crashDetected' = FALSE
    /\ countdown' = 0
    /\ UNCHANGED <<objects, telemetry, history, countdownRef, nextTimer,
                   geoPending, view, calls>>

\* The alert's Call Now button, lines 290-295, rendered while crashDetected.
CallNowAlert ==
    /\ crashDetected
    /\ calls < MaxCalls
    /\ callEmergency
    /\ UNCHANGED <<objects, telemetry, history, crashDetected, countdown,
                   countdownRef, timers, nextTimer, geoPending, view>>

\* The contact page's Call Now button, lines 260-265.
CallNowContact ==
    /\ view = "contact"
    /\ calls < MaxCalls
    /\ callEmergency
    /\ UNCHANGED <<objects, telemetry, history, crashDetected, countdown,
                   countdownRef, timers, nextTimer, geoPending, view>>

\* A bottom navigation button, lines 321-323.
SetView(v) ==
    /\ v # view
    /\ view' = v
    /\ UNCHANGED <<objects, telemetry, history, crashDetected, countdown,
                   countdownRef, timers, nextTimer, geoPending, calls>>

(***************************************************************************)
(* The polling handler, lines 32-83: one firing of the 500 ms interval     *)
(* with the response its fetch ends in.                                    *)
(***************************************************************************)
FetchError == [kind |-> "error"]
NoData == [kind |-> "null"]
Object(d) == [kind |-> "object", data |-> d]

\* The handler returns before building a reading, or never runs.
Skipped(resp) == resp.kind # "object" \/ SkipGuard(resp.data)

Poll(resp) ==
    IF Skipped(resp)
    THEN UNCHANGED vars
    ELSE LET data == resp.data
             ref == Len(objects) + 1
             newData == NewData(data, ref)
         IN  /\ objects' = Append(objects, newData)
             /\ geoPending' = IF PositionMissing(data)
                                THEN geoPending \cup {ref} ELSE geoPending
             /\ telemetry' = ref
             /\ history' = AppendHistory(history, ref)
             /\ IF ExceedsG(newData["gForce"], CrashThreshold)
                THEN triggerCrashSequence
                ELSE UNCHANGED <<crashDetected, countdown, countdownRef, timers,
                                 nextTimer, calls>>
             /\ view' = view

\* The callback writing into the current reading (the telemetry state) instead
\* of the object it captured.
GeoSuccess_WritesCurrent(ref) ==
    /\ ref \in geoPending
    /\ geoPending' = geoPending \ {ref}
    /\ objects' = [objects EXCEPT ![telemetry] =
            [k \in DOMAIN @ \cup {"lat", "lon"} |->
                CASE k = "lat" -> FallbackLat
                  [] k = "lon" -> FallbackLon
                  [] OTHER -> @[k]]]
    /\ UNCHANGED <<telemetry, history, crashDetected, countdown, countdownRef,
                   timers, nextTimer, view, calls>>

\* The getCurrentPosition success callback, lines 68-71: writes the phone's
\* position into the object the handler built.
GeoSuccess(ref) ==
    /\ ref \in geoPending
    /\ geoPending' = geoPending \ {ref}
    /\ objects' = [objects EXCEPT ![ref] =
            [k \in DOMAIN @ \cup {"lat", "lon"} |->
                CASE k = "lat" -> FallbackLat
                  [] k = "lon" -> FallbackLon
                  [] OTHER -> @[k]]]
    /\ UNCHANGED <<telemetry, history, crashDetected, countdown, countdownRef,
                   timers, nextTimer, view, calls>>

\* The getCurrentPosition error callback, line 72.
GeoError(ref) ==
    /\ ref \in geoPending
    /\ geoPending' = geoPending \ {ref}
    /\ UNCHANGED <<objects, telemetry, history, crashDetected, countdown,
                   countdownRef, timers, nextTimer, view, calls>>

(***************************************************************************)
(* The application: the samples are a quiet reading with a position, a     *)
(* 4 G reading without one, and a sample without ax.                       *)
(***************************************************************************)
Quiet == [ax |-> 0, ay |-> 0, az |-> 98, gps_spd |-> 12344, lat |-> 12, lon |-> 77]
Crash == [ax |-> 392, ay |-> 0, az |-> 0]
NoAx == [ay |-> 0, az |-> 98]

Responses == {FetchError, NoData, Object(Quiet), Object(Crash), Object(NoAx)}

Init ==
    /\ objects = <<>>
    /\ telemetry = 0
    /\ history = <<>>
    /\ crashDetected = FALSE
    /\ countdown = 0
    /\ countdownRef = 0
    /\ timers = {}
    /\ nextTimer = 1
    /\ geoPending = {}
    /\ view = "dashboard"
    /\ calls = 0
    /\ episodeTicks = 0

PollStep == \E resp \in Responses :
    /\ ~Skipped(resp) => Len(objects) < MaxSamples
    /\ Poll(resp)
    /\ UNCHANGED episodeTicks

Next ==
    \/ PollStep
    \/ \E t \in timers : CountdownTick(t) /\ UNCHANGED episodeTicks
    \/ cancelEmergency /\ UNCHANGED episodeTicks
    \/ CallNowAlert /\ UNCHANGED episodeTicks
    \/ CallNowContact /\ UNCHANGED episodeTicks
    \/ \E v \in Views : SetView(v) /\ UNCHANGED episodeTicks
    \/ \E ref \in geoPending : GeoSuccess(ref) /\ UNCHANGED episodeTicks
    \/ \E ref \in geoPending : GeoError(ref) /\ UNCHANGED episodeTicks

Spec == Init /\ [][Next]_vars

(***************************************************************************)
(* The history on its own: a long run of accepted and skipped samples,     *)
(* none of them a crash, with nothing else going on.                       *)
(***************************************************************************)
HistoryResponses == {FetchError, NoData, Object(Quiet), Object(NoAx)}

HistoryPollStep == \E resp \in HistoryResponses :
    /\ ~Skipped(resp) => Len(objects) < HistoryAppends
    /\ Poll(resp)
    /\ UNCHANGED episodeTicks

SpecHistory == Init /\ [][HistoryPollStep]_vars

(***************************************************************************)
(* Normalisation on its own: the first poll after mount, with a sample     *)
(* whose fields are each absent or drawn from the values below, and the    *)
(* position callbacks it leaves outstanding.                               *)
(***************************************************************************)
AccValues == {-392, 0, 98, 343}
SpeedValues == {-1000, 0, 799, 804, 1690, 1695, 1700, 5490, 5500, 9590, 9600}
MpuSpeedValues == {-1000, 0, 2004}

\* <<>> for a field the sample lacks, <<v>> for one it has.
Optional(S) == {<<>>} \cup {<<v>> : v \in S}

Present(r) == [k \in {j \in DOMAIN r : r[j] # <<>>} |-> r[k][1]]

WideSamples ==
    {Present(r) : r \in [ax : Optional(AccValues), ay : Optional(AccValues),
                          az : Optional(AccValues),
                          gps_spd : Optional(SpeedValues),
                          mpu_spd : Optional(MpuSpeedValues)]}

NormalizePollStep == \E data \in WideSamples :
    /\ objects = <<>>
    /\ Poll(Object(data))
    /\ UNCHANGED episodeTicks

NextNormalize ==
    \/ NormalizePollStep
    \/ \E ref \in geoPending : GeoSuccess(ref) /\ UNCHANGED episodeTicks
    \/ \E ref \in geoPending : GeoError(ref) /\ UNCHANGED episodeTicks

SpecNormalize == Init /\ [][NextNormalize]_vars

(***************************************************************************)
(* The crash threshold on its own: samples of exactly 3.5 G                *)
(* (9.8, 14.7, 29.4 m/s^2, of magnitude 34.3) and just above it            *)
(* (34.3, 0.1, 0), with the countdown ticking and being cancelled.         *)
(***************************************************************************)
AtThreshold == [ax |-> 98, ay |-> 147, az |-> 294, lat |-> 12, lon |-> 77]
AboveThreshold == [ax |-> 343, ay |-> 1, az |-> 0, lat |-> 12, lon |-> 77]

ThresholdResponses == {Object(AtThreshold), Object(AboveThreshold)}

ThresholdPollStep == \E resp \in ThresholdResponses :
    /\ Len(objects) < MaxSamples
    /\ Poll(resp)
    /\ UNCHANGED episodeTicks

NextThreshold ==
    \/ ThresholdPollStep
    \/ \E t \in timers : CountdownTick(t) /\ UNCHANGED episodeTicks
    \/ cancelEmergency /\ UNCHANGED episodeTicks

SpecThreshold == Init /\ [][NextThreshold]_vars

(***************************************************************************)
(* The position fallback on its own: a few polls whose samples carry a     *)
(* lat and a lon that are each absent, 0 or a coordinate, and the          *)
(* callbacks they leave outstanding.                                       *)
(***************************************************************************)
PositionPolls == 2

PositionSamples ==
    {Present(r) : r \in [ax : {<<0>>}, ay : {<<0>>}, az : {<<98>>},
                          lat : Optional({0, 12}), lon : Optional({0, 77})]}

PositionPollStep == \E data \in PositionSamples :
    /\ Len(objects) < PositionPolls
    /\ Poll(Object(data))
    /\ UNCHANGED episodeTicks

NextPosition ==
    \/ PositionPollStep
    \/ \E ref \in geoPending : GeoSuccess(ref) /\ UNCHANGED episodeTicks
    \/ \E ref \in geoPending : GeoError(ref) /\ UNCHANGED episodeTicks

SpecPosition == Init /\ [][NextPosition]_vars

(***************************************************************************)
(* The countdown's deadline on its own: an episode in which no cancel and  *)
(* no Call Now is issued, samples of either kind keep arriving, and the    *)
(* firings of the countdown intervals since the crash signal that started  *)
(* the episode are counted.                                                *)
(***************************************************************************)
DeadlineResponses == {Object(Quiet), Object(Crash)}

DeadlinePollStep == \E resp \in DeadlineResponses :
    /\ Len(objects) < MaxSamples
    /\ Poll(resp)
    /\ episodeTicks' = IF Idle /\ crashDetected' THEN 0 ELSE episodeTicks

\* Intervals are numbered in the order setInterval created them and, with no
\* cancel, only the latest one is ever cleared: the least live one is the
\* interval that the episode's first crash signal started.
EpisodeTimer == CHOOSE t \in timers : \A u \in timers : t <= u

DeadlineTickStep == \E t \in timers :
    /\ t = EpisodeTimer => episodeTicks < MaxTicks
    /\ CountdownTick(t)
    /\ episodeTicks' = IF t = EpisodeTimer THEN episodeTicks + 1 ELSE episodeTicks

NextDeadline ==
    \/ DeadlinePollStep
    \/ DeadlineTickStep

SpecDeadline == Init /\ [][NextDeadline]_vars

(***************************************************************************)
(* Steps the properties speak of.                                          *)
(***************************************************************************)
\* The polling handler processes a sample whose gForce exceeds 3.5.
CrashSampleStep == \E resp \in Responses :
    /\ resp.kind = "object"
    /\ Has(resp.data, "ax")
    /\ ExceedsG(GForce(resp.data), CrashThreshold)
    /\ Poll(resp)

\* A countdown interval fires.
TickStep == \E t \in timers : CountdownTick(t)

\* The polling handler gets no sample, or one without ax.
AccelerationAbsent(resp) ==
    \/ resp.kind # "object"
    \/ "ax" \notin DOMAIN resp.data

SkippedSampleStep == \E resp \in Responses : AccelerationAbsent(resp) /\ Poll(resp)

\* The readings the application holds: those in history and the current one.
Stored == {history[i] : i \in 1..Len(history)} \cup ({telemetry} \ {0})

(***************************************************************************)
(* C1.  While the countdown is Active, a further sample with gForce > 3.5  *)
(* processed by the polling handler is ignored: the countdown is not reset *)
(* to 30 and no additional interval timer is started.                      *)
(***************************************************************************)
C1_CrashWhileActiveIgnored ==
    [][(Active /\ CrashSampleStep) =>
            /\ countdown' = countdown
            /\ timers' = timers
            /\ countdownRef' = countdownRef]_vars

(***************************************************************************)
(* C2.  Cancel in Active(n) leaves the controller Idle, and from then on a *)
(* timer tick (no crash signal having arrived since) leaves crashDetected  *)
(* false and countdown 0 and invokes no callEmergency.  The controller is  *)
(* Idle with a live timer only after a cancel, so the second part is: a    *)
(* tick taken in Idle changes nothing and places no call.                  *)
(***************************************************************************)
C2_CancelStopsCountdown ==
    [][/\ (Active /\ cancelEmergency) => Idle'
       /\ (Idle /\ TickStep) => (Idle' /\ calls' = calls)]_vars

(***************************************************************************)
(* C3.  In an episode (from the crash signal that leaves Idle until the    *)
(* controller is next Idle) callEmergency is never invoked more than once; *)
(* an episode that cancel ends has seen no call, and one that ends         *)
(* otherwise (expiry, call-now) has seen exactly one.                      *)
(***************************************************************************)
C3_ExactlyOncePerEpisode ==
    [][/\ ~Idle' => calls' <= 1
       /\ (~Idle /\ Idle') => calls' = (IF cancelEmergency THEN 0 ELSE 1)]_vars

(***************************************************************************)
(* C4.  From Active(1), one timer tick invokes callEmergency exactly once, *)
(* stops the countdown timer and leaves the controller Idle: countdown = 0 *)
(* and crashDetected = false.                                              *)
(***************************************************************************)
C4_ExpiryReturnsToIdle ==
    [][(crashDetected /\ countdown = 1 /\ TickStep) =>
            /\ calls' = calls + 1
            /\ countdownRef \notin timers'
            /\ countdown' = 0
            /\ crashDetected' = FALSE]_vars

(***************************************************************************)
(* C5.  When the controller is Idle and a sample with gForce > 3.5 is      *)
(* processed, the controller becomes Active: crashDetected = true,         *)
(* countdown = 30, and a countdown timer newly started and held by         *)
(* countdownRef is running.                                                *)
(***************************************************************************)
C5_CrashFromIdleStartsCountdown ==
    [][(Idle /\ CrashSampleStep) =>
            /\ crashDetected' = TRUE
            /\ countdown' = 30
            /\ countdownRef' \in timers'
            /\ countdownRef' \notin timers
            /\ timers' = timers \cup {countdownRef'}]_vars

\* The first crash sample has just been processed, from Idle.
C5_Witness ==
    /\ telemetry # 0
    /\ ExceedsG(objects[telemetry]["gForce"], CrashThreshold)
    /\ nextTimer = 2
    /\ crashDetected
    /\ countdown = 30
    /\ timers = {1}

(***************************************************************************)
(* C6.  The history never holds more than 1000 readings; once more than    *)
(* 1000 readings have been appended it holds exactly the most recent 1000. *)
(***************************************************************************)
C6_HistoryAtMost1000 ==
    /\ Len(history) <= 1000
    /\ Len(objects) > 1000 =>
            history = [i \in 1..1000 |-> Len(objects) - 1000 + i]

(***************************************************************************)
(* C7.  The alert's Call Now command in Active(n) places the call and      *)
(* resets as natural expiry is said to: the countdown timer is stopped,    *)
(* countdown becomes 0 and the controller is Idle.                         *)
(***************************************************************************)
C7_CallNowResets ==
    [][(Active /\ CallNowAlert) =>
            /\ calls' = calls + 1
            /\ countdownRef \notin timers'
            /\ countdown' = 0
            /\ crashDetected' = FALSE]_vars

(***************************************************************************)
(* C8.  Once an earlier episode is over (a countdown was started before    *)
(* and the countdown is back at 0), the next sample with gForce > 3.5      *)
(* starts a fresh, independent episode: crashDetected, countdown = 30, and *)
(* the only live countdown timer is the one this sample started.           *)
(***************************************************************************)
C8_FreshEpisode ==
    [][(nextTimer > 1 /\ countdown = 0 /\ CrashSampleStep) =>
            /\ crashDetected' = TRUE
            /\ countdown' = 30
            /\ timers' = {countdownRef'}
            /\ countdownRef' \notin timers]_vars

(***************************************************************************)
(* C9.  A poll that ends in a failed fetch, in no data, or in a sample     *)
(* without ax changes nothing: telemetry, history, the stored readings,    *)
(* crashDetected, countdown and the timers are as before, and no countdown *)
(* is started.                                                             *)
(***************************************************************************)
C9_SkippedSampleChangesNothing ==
    [][SkippedSampleStep =>
            UNCHANGED <<objects, telemetry, history, crashDetected, countdown,
                        countdownRef, timers, nextTimer, geoPending, calls>>]_vars

\* A countdown is running over a non-empty history while samples without
\* acceleration data keep arriving.
C9_Witness ==
    /\ Active
    /\ countdown < 30
    /\ Len(history) >= 2
    /\ ENABLED SkippedSampleStep

(***************************************************************************)
(* C10.  Every reading stored in history or as current telemetry has a     *)
(* numeric gForce >= 0 and spd >= 0, whichever fields of the raw sample    *)
(* are absent or negative.                                                 *)
(***************************************************************************)
C10_StoredReadingsNonNegative ==
    \A ref \in Stored :
        /\ objects[ref]["gForce"] # NaN
        /\ objects[ref]["gForce"] >= 0
        /\ objects[ref]["spd"] >= 0

(***************************************************************************)
(* C12.  For every stored reading, ride_mode is a function of spd alone:   *)
(* Idle iff spd < 1.7, Walking iff 1.7 <= spd < 5.5, Scooter iff           *)
(* 5.5 <= spd < 9.6, Motorcycle iff spd >= 9.6.                            *)
(***************************************************************************)
C12_RideModeThresholds ==
    \A ref \in Stored :
        LET spd == objects[ref]["spd"]
            mode == objects[ref]["ride_mode"]
        IN  /\ mode = "Idle" <=> spd < 1700
            /\ mode = "Walking" <=> (1700 <= spd /\ spd < 5500)
            /\ mode = "Scooter" <=> (5500 <= spd /\ spd < 9600)
            /\ mode = "Motorcycle" <=> spd >= 9600

\* A reading at exactly 1.7 km/h is stored, as Walking.
C12_Witness ==
    \E ref \in Stored :
        /\ objects[ref]["spd"] = 1700
        /\ objects[ref]["ride_mode"] = "Walking"

(***************************************************************************)
(* C13.  Speed source precedence: with gps_spd > 0 the stored spd is       *)
(* derived from gps_spd alone, whatever mpu_spd is; otherwise, with        *)
(* mpu_spd > 0, from mpu_spd alone; otherwise spd = 0.                     *)
(***************************************************************************)
C13_SpeedSourcePrecedence ==
    \A ref \in Stored :
        LET o == objects[ref]
        IN  IF "gps_spd" \in DOMAIN o /\ o["gps_spd"] > 0
            THEN o["spd"] = Speed(o["gps_spd"])
            ELSE IF "mpu_spd" \in DOMAIN o /\ o["mpu_spd"] > 0
            THEN o["spd"] = Speed(o["mpu_spd"])
            ELSE o["spd"] = 0

\* Both sources are positive and would give different speeds; the GPS one is
\* stored.
C13_Witness ==
    \E ref \in Stored :
        LET o == objects[ref]
        IN  /\ "gps_spd" \in DOMAIN o /\ o["gps_spd"] > 0
            /\ "mpu_spd" \in DOMAIN o /\ o["mpu_spd"] > 0
            /\ Speed(o["gps_spd"]) # Speed(o["mpu_spd"])
            /\ o["spd"] = Speed(o["gps_spd"])

(***************************************************************************)
(* C20.  The source speed a stored reading was derived from, in            *)
(* thousandths of km/h.                                                    *)
(***************************************************************************)
SourceSpeed(o) ==
    IF "gps_spd" \in DOMAIN o /\ o["gps_spd"] > 0 THEN o["gps_spd"]
    ELSE IF "mpu_spd" \in DOMAIN o /\ o["mpu_spd"] > 0 THEN o["mpu_spd"]
    ELSE 0

\* The hundredth nearest to x, a half going up.
NearestHundredth(x) == ((x + 5) \div 10) * 10

(***************************************************************************)
(* C20, as claimed.  spd is the source speed rounded to 2 decimal places   *)
(* first, the rounded value then snapped to 0 when below 0.8; no stored    *)
(* reading has 0 < spd < 0.8.                                              *)
(***************************************************************************)
C20_RoundThenSnap ==
    \A ref \in Stored :
        LET rounded == NearestHundredth(SourceSpeed(objects[ref]))
        IN  /\ objects[ref]["spd"] = (IF rounded < 800 THEN 0 ELSE rounded)
            /\ ~(0 < objects[ref]["spd"] /\ objects[ref]["spd"] < 800)

(***************************************************************************)
(* C20, amended.  spd is the source speed snapped to 0 when it is below    *)
(* 0.8, and otherwise rounded to 2 decimal places (a whole number of       *)
(* hundredths at most half a hundredth away), in that order; no stored     *)
(* reading has 0 < spd < 0.8.                                              *)
(***************************************************************************)
C20_SnapThenRound ==
    \A ref \in Stored :
        LET raw == SourceSpeed(objects[ref])
            spd == objects[ref]["spd"]
        IN  /\ raw < 800 => spd = 0
            /\ raw >= 800 =>
                    /\ spd % 10 = 0
                    /\ spd - raw <= 5
                    /\ raw - spd <= 5
            /\ ~(0 < spd /\ spd < 800)

\* A source speed of 0.799, which rounds to 0.80, is stored as 0.
C20_Witness ==
    \E ref \in Stored :
        /\ SourceSpeed(objects[ref]) = 799
        /\ objects[ref]["spd"] = 0

(***************************************************************************)
(* C11.  A countdown starts only as the result of processing a reading     *)
(* whose gForce is strictly greater than 3.5 (squared magnitude above      *)
(* 34.3^2 = 1176.49, that is 117649 in the units used here); processing a  *)
(* reading with gForce <= 3.5, exactly 3.5 included, never changes         *)
(* crashDetected, countdown or the timers.                                 *)
(***************************************************************************)
C11_CountdownOnlyAbove35 ==
    [][/\ (nextTimer' # nextTimer \/ (crashDetected' /\ ~crashDetected)
                \/ countdown' > countdown) =>
            /\ telemetry' # telemetry
            /\ objects'[telemetry']["gForce"] > 117649
       /\ (telemetry' # telemetry /\ objects'[telemetry']["gForce"] >= 0
                /\ objects'[telemetry']["gForce"] <= 117649) =>
            UNCHANGED <<crashDetected, countdown, countdownRef, timers,
                        nextTimer>>]_vars

\* A reading of exactly 3.5 G has been processed while the countdown of an
\* earlier crash was running, and the countdown went on from 29.
C11_Witness ==
    /\ telemetry # 0
    /\ objects[telemetry]["gForce"] = 117649
    /\ nextTimer = 2
    /\ timers = {1}
    /\ crashDetected
    /\ countdown = 29

(***************************************************************************)
(* C14.  For n > 1, one timer tick in Active(n) yields Active(n-1) without *)
(* placing a call: countdown decreases by exactly 1 per tick; and in every *)
(* reachable state countdown is an integer in 0..30.                       *)
(***************************************************************************)
C14_TickDecrementsByOne ==
    /\ countdown \in 0..30
    /\ [][/\ (crashDetected /\ countdown > 1 /\ TickStep) =>
                /\ crashDetected'
                /\ countdown' = countdown - 1
                /\ calls' = calls
           /\ countdown' \in 0..30]_vars

\* The first tick of the first countdown has fired.
C14_Witness ==
    /\ nextTimer = 2
    /\ timers = {1}
    /\ crashDetected
    /\ countdown = 29
    /\ calls = 0

(***************************************************************************)
(* C16.  In every reachable state at most one countdown interval timer is  *)
(* live, countdownRef.current refers to that timer, and no countdown timer *)
(* is live while the controller is Idle.                                   *)
(***************************************************************************)
C16_SingleTimerOwnedByRef ==
    /\ Cardinality(timers) <= 1
    /\ timers # {} => timers = {countdownRef}
    /\ Idle => timers = {}

(***************************************************************************)
(* C17.  The history is always a contiguous suffix of the sequence of      *)
(* accepted readings in processing order, oldest first: an append adds     *)
(* only at the end, eviction removes only from the front, and no other     *)
(* deletion or reordering occurs.                                          *)
(***************************************************************************)
C17_HistoryIsSuffix ==
    /\ Len(history) <= Len(objects)
    /\ \A i \in 1..Len(history) :
            history[i] = Len(objects) - Len(history) + i
    /\ \A ref \in 1..Len(objects) : objects[ref]["timestamp"] = ref

\* Readings have been evicted: the history is a proper suffix.
C17_Witness ==
    /\ Len(history) > 0
    /\ Len(history) < Len(objects)
    /\ history[1] > 1

(***************************************************************************)
(* C18, as claimed.  A reading is immutable once created: after it has     *)
(* been appended to history and published as current telemetry none of its *)
(* fields change; a fallback-position callback that completes later does   *)
(* not alter it.                                                           *)
(***************************************************************************)
C18_ReadingsImmutable ==
    [][\A ref \in 1..Len(objects) : objects'[ref] = objects[ref]]_vars

(***************************************************************************)
(* C18, amended.  Once a reading is created, none of its fields other than *)
(* lat and lon changes; lat and lon change only when the reading's own     *)
(* fallback-position callback completes, which sets both to the fallback   *)
(* position, once.                                                         *)
(***************************************************************************)
C18_OnlyOwnCallbackWritesPosition ==
    [][\A ref \in 1..Len(objects) :
            /\ DOMAIN objects'[ref] \ {"lat", "lon"} =
                    DOMAIN objects[ref] \ {"lat", "lon"}
            /\ \A k \in DOMAIN objects[ref] \ {"lat", "lon"} :
                    objects'[ref][k] = objects[ref][k]
            /\ objects'[ref] # objects[ref] =>
                    /\ ref \in geoPending
                    /\ ref \notin geoPending'
                    /\ objects'[ref]["lat"] = FallbackLat
                    /\ objects'[ref]["lon"] = FallbackLon]_vars

\* A reading in history that is no longer the current one holds the fallback
\* position its callback wrote.
C18_Witness ==
    \E i \in 1..Len(history) :
        /\ history[i] # telemetry
        /\ history[i] \notin geoPending
        /\ "lat" \in DOMAIN objects[history[i]]
        /\ objects[history[i]]["lat"] = FallbackLat

(***************************************************************************)
(* C19, as claimed.  A fallback request is issued for a sample only when   *)
(* lat and lon are both missing from it; a lat or a lon that the sample    *)
(* carries is never replaced by a fallback position.                       *)
(***************************************************************************)
C19_RequestOnlyWhenBothMissing ==
    [][/\ \A ref \in geoPending' \ geoPending :
                /\ "lat" \notin DOMAIN objects'[ref]
                /\ "lon" \notin DOMAIN objects'[ref]
       /\ \A ref \in 1..Len(objects) :
                \A k \in {"lat", "lon"} \cap DOMAIN objects[ref] :
                    objects'[ref][k] = objects[ref][k]]_vars

(***************************************************************************)
(* C19, amended.  A fallback request is issued for a sample exactly when   *)
(* its lat or its lon is missing (absent or 0); when the sample carries    *)
(* both a lat and a lon, no request is issued and the values it carries    *)
(* are never replaced by a fallback position.                              *)
(***************************************************************************)
CarriesBoth(o) ==
    /\ "lat" \in DOMAIN o /\ o["lat"] # 0
    /\ "lon" \in DOMAIN o /\ o["lon"] # 0

C19_RequestWhenEitherMissing ==
    [][/\ \A ref \in geoPending' \ geoPending :
                telemetry' # telemetry /\ ref = telemetry'
       /\ telemetry' # telemetry =>
                (telemetry' \in geoPending' <=> ~CarriesBoth(objects'[telemetry']))
       /\ \A ref \in 1..Len(objects) :
                CarriesBoth(objects[ref]) =>
                    /\ objects'[ref]["lat"] = objects[ref]["lat"]
                    /\ objects'[ref]["lon"] = objects[ref]["lon"]]_vars

\* A request is outstanding for a sample that carries a lat and no lon, and
\* a sample carrying both has been stored with no request.
C19_Witness ==
    /\ \E ref \in geoPending :
            /\ "lat" \in DOMAIN objects[ref] /\ objects[ref]["lat"] = 12
            /\ "lon" \notin DOMAIN objects[ref]
    /\ \E ref \in Stored \ geoPending :
            /\ "lat" \in DOMAIN objects[ref] /\ objects[ref]["lat"] = 12
            /\ "lon" \in DOMAIN objects[ref] /\ objects[ref]["lon"] = 77

====
